---- MODULE Spec2Model ----
(***************************************************************************)
(* Model of the paper-discovery pipeline of research-assistant:            *)
(*   src/src/academic_search.py  AcademicSearchAggregator                  *)
(*   src/src/research_agent.py   ResearchGapAgent                          *)
(* Strings are sequences of one-character strings, so that lower-casing,   *)
(* stripping, splitting and slicing are computed character by character.   *)
(***************************************************************************)
EXTENDS Integers, Sequences, FiniteSets, TLC

VARIABLES
    \* AcademicSearchAggregator
    config,           \* config['databases'][s]['enabled'], per source
    enabled_sources,  \* self.enabled_sources, the list built by the constructor
    aggPc,            \* position of one search_all_sources call
    tasks,            \* the coroutines handed to asyncio.gather, in creation order
    results,          \* the dict search_all_sources returns
    silent,           \* the sources whose request was never answered
    writes,           \* the keys results[...] was assigned under, in order
    \* ResearchGapAgent
    claude_client,    \* TRUE when a text-generation client was injected
    notion_client,    \* TRUE when a knowledge-store client was injected
    research_gaps,    \* argument of find_papers_for_gaps
    key_concepts,     \* argument of find_papers_for_gaps
    claude_reply,     \* what messages.create did in _generate_search_queries
    pc,               \* position of one find_papers_for_gaps call
    search_queries,   \* local search_queries
    dispatched,       \* the queries search_arxiv was awaited with, in order
    search_log,       \* the requests sent and the responses received, in order
    all_papers,       \* local all_papers
    unique_papers,    \* local unique_papers
    ranked_papers,    \* local ranked_papers
    summary,          \* the number formatted into the summary string
    lookups,          \* outcome of each paper_exists_in_notion call, in order
    new_paper,        \* local new_paper
    result,           \* the dict find_papers_for_gaps returns
    rededuped,        \* _deduplicate_papers applied to its own output
    \* ResearchGapAgent.fetch_and_analyze_paper
    enrichPc,         \* position of one fetch_and_analyze_paper call
    paper_url,        \* argument paper_url
    page,             \* what session.get(paper_url) and response.text() gave
    analysis,         \* local analysis
    analysis_reply,   \* what messages.create did in fetch_and_analyze_paper
    enrich_result,    \* the dict fetch_and_analyze_paper returns
    \* the knowledge store
    store_calls,      \* the methods of notion_client that were called, in order
    \* main.analyze_all_gaps
    batchPc,          \* position of one analyze_all_gaps request
    discord_client,   \* TRUE when a notifier was configured
    notion_results,   \* local results, the pages the database query returned
    page_idx,         \* position of the loop of line 567 in results[:3]
    papers_analyzed,  \* local papers_analyzed
    papers_added,     \* local papers_added
    findings,         \* local findings
    notified,         \* the papers notify_paper_added was called for, in order
    page_trace        \* per analyzed page, what its three calls did

aggVars == <<config, enabled_sources, aggPc, tasks, results, silent, writes>>
agentVars == <<claude_client, notion_client, research_gaps, key_concepts,
               claude_reply, pc,
               search_queries, dispatched, search_log, all_papers, unique_papers,
               ranked_papers, summary, lookups, new_paper, result, rededuped>>
enrichVars == <<enrichPc, paper_url, page, analysis, analysis_reply, enrich_result>>
storeVars == <<store_calls>>
batchVars == <<batchPc, discord_client, notion_results, page_idx, papers_analyzed,
               papers_added, findings, notified, page_trace>>
vars == <<aggVars, agentVars, enrichVars, storeVars, batchVars>>

\* Values standing for Python's None and for an absent dict key or XML element,
\* one per type so that they compare with the values they stand in for.
NoTitle == <<"<absent>">>
NoText == <<"<None>">>
NoCount == -1
NoId == 0
NoSummary == -1
NoPaper == [title |-> NoTitle, url |-> NoId, source |-> "None"]
NoResult == [papers |-> <<>>, summary |-> NoSummary, search_queries |-> <<>>]

-----------------------------------------------------------------------------
(* Bounds of the model                                                     *)

\* Longest 'data' array of a Semantic Scholar response.
MaxData == 2
\* Most <entry> elements of one arXiv feed.
MaxEntries == 2
\* Longest candidate list handed to _deduplicate_papers on its own.
MaxPapers == 3
\* Most lines of a text-generation answer.
MaxClaudeLines == 4

-----------------------------------------------------------------------------
(* Strings                                                                 *)

RECURSIVE Repeat(_, _)
Repeat(c, n) == IF n = 0 THEN <<>> ELSE <<c>> \o Repeat(c, n - 1)

IsSpace(c) == c \in {" ", "\n", "\t"}

\* str.lower(), on the letters the model uses
LowerChar(c) ==
    CASE c = "A" -> "a"
      [] c = "B" -> "b"
      [] c = "C" -> "c"
      [] OTHER -> c

Lower(s) == [i \in 1..Len(s) |-> LowerChar(s[i])]

\* s[:n]
Take(s, n) == SubSeq(s, 1, IF Len(s) < n THEN Len(s) ELSE n)

RECURSIVE LStrip(_)
LStrip(s) == IF s # <<>> /\ IsSpace(Head(s)) THEN LStrip(Tail(s)) ELSE s

RECURSIVE RStrip(_)
RStrip(s) ==
    IF s # <<>> /\ IsSpace(s[Len(s)]) THEN RStrip(SubSeq(s, 1, Len(s) - 1)) ELSE s

\* str.strip()
Strip(s) == RStrip(LStrip(s))

\* str.replace('\n', ' ')
ReplaceNewline(s) == [i \in 1..Len(s) |-> IF s[i] = "\n" THEN " " ELSE s[i]]

\* str.split(): the maximal runs of non-whitespace characters
RECURSIVE SplitWs(_, _, _)
SplitWs(s, cur, acc) ==
    IF s = <<>> THEN (IF cur = <<>> THEN acc ELSE Append(acc, cur))
    ELSE IF IsSpace(Head(s))
         THEN SplitWs(Tail(s), <<>>, IF cur = <<>> THEN acc ELSE Append(acc, cur))
         ELSE SplitWs(Tail(s), Append(cur, Head(s)), acc)

Split(s) == SplitWs(s, <<>>, <<>>)

\* str.split(sep): every piece between separators, empty pieces included
RECURSIVE SplitSep(_, _, _, _)
SplitSep(s, sep, cur, acc) ==
    IF s = <<>> THEN Append(acc, cur)
    ELSE IF Head(s) = sep
         THEN SplitSep(Tail(s), sep, <<>>, Append(acc, cur))
         ELSE SplitSep(Tail(s), sep, Append(cur, Head(s)), acc)

SplitOn(s, sep) == SplitSep(s, sep, <<>>, <<>>)

\* sep.join(parts)
RECURSIVE Join(_, _)
Join(parts, sep) ==
    IF parts = <<>> THEN <<>>
    ELSE IF Len(parts) = 1 THEN parts[1]
    ELSE parts[1] \o <<sep>> \o Join(Tail(parts), sep)

-----------------------------------------------------------------------------
(* AcademicSearchAggregator                                                *)

SourceOrder == <<"semantic_scholar", "arxiv", "ieee">>
SourceNames == {SourceOrder[i] : i \in 1..Len(SourceOrder)}

\* The _search_<source> coroutines the class defines; there is no _search_ieee.
DefinedAdapters == {"semantic_scholar", "arxiv"}

\* _initialize_sources: append each enabled source, in this order
_initialize_sources(cfg) == SelectSeq(SourceOrder, LAMBDA s : cfg[s])

\* Titles and citation counts a Semantic Scholar payload may carry.
AggTitles == {<<"A">>, <<"B">>}
AggCitations == {0, 7}
RawAggPapers == [title : AggTitles \cup {NoTitle}, citationCount : AggCitations \cup {NoCount}]

\* _format_papers: one normalised record per raw paper, defaults for absent keys
FormatOne(paper, source) ==
    [title |-> IF paper.title = NoTitle THEN <<>> ELSE paper.title,
     source |-> source,
     relevance_score |-> IF paper.citationCount = NoCount THEN 0 ELSE paper.citationCount]

_format_papers(papers, source) == [i \in 1..Len(papers) |-> FormatOne(papers[i], source)]

RECURSIVE SeqsUpTo(_, _)
SeqsUpTo(S, n) ==
    IF n = 0 THEN {<<>>}
    ELSE LET shorter == SeqsUpTo(S, n - 1)
         IN  shorter \cup {Append(q, x) : q \in {r \in shorter : Len(r) = n - 1}, x \in S}

\* What the network can hand to one adapter's session.get.
\* "timeout": no answer ever arrives, and the request is ended by the total
\* timeout a ClientSession created without arguments carries
AggResponses ==
    {[kind |-> "neterr"], [kind |-> "status", status |-> 500],
     [kind |-> "malformed"], [kind |-> "nodata"], [kind |-> "timeout"]}
    \cup {[kind |-> "data", data |-> d] : d \in SeqsUpTo(RawAggPapers, MaxData)}

\* _search_semantic_scholar / _search_arxiv: the value returned, or the
\* exception raised, for one response
AdapterOutcome(source, resp) ==
    IF resp.kind = "neterr" THEN [exc |-> TRUE, papers |-> <<>>]
    ELSE IF resp.kind = "timeout" THEN [exc |-> TRUE, papers |-> <<>>]
    ELSE IF resp.kind = "status" THEN [exc |-> TRUE, papers |-> <<>>]
    ELSE IF source = "semantic_scholar"
         THEN IF resp.kind = "malformed" THEN [exc |-> TRUE, papers |-> <<>>]
              ELSE IF resp.kind = "nodata"
                   THEN [exc |-> FALSE, papers |-> _format_papers(<<>>, source)]
                   ELSE [exc |-> FALSE, papers |-> _format_papers(resp.data, source)]
         \* the arXiv adapter reads the body as text and formats an empty list
         ELSE [exc |-> FALSE, papers |-> _format_papers(<<>>, source)]

\* Mutant of CreateTasks: the coroutines are created in another order than
\* the one enabled_sources lists the sources in.
CreateTasksReversed(enabled) ==
    LET on == {enabled[i] : i \in 1..Len(enabled)}
        order == SelectSeq(<<"ieee", "arxiv", "semantic_scholar">>, LAMBDA s : s \in on)
    IN  [i \in 1..Len(order) |-> [adapter |-> order[i], state |-> "pending",
                                   exc |-> FALSE, papers |-> <<>>]]

\* lines 30-35: one coroutine per source found in enabled_sources, created in
\* the order semantic_scholar, arxiv, ieee
CreateTasks(enabled) ==
    LET on == {enabled[i] : i \in 1..Len(enabled)}
        order == SelectSeq(SourceOrder, LAMBDA s : s \in on)
    IN  [i \in 1..Len(order) |-> [adapter |-> order[i], state |-> "pending",
                                   exc |-> FALSE, papers |-> <<>>]]

Min(a, b) == IF a < b THEN a ELSE b

\* lines 39-44: for source, result in zip(self.enabled_sources, search_results);
\* a later pair overwrites an earlier one with the same key
ZipResults(enabled, search_results) ==
    LET n == Min(Len(enabled), Len(search_results))
    IN  [s \in {enabled[i] : i \in 1..n} |->
            LET i == CHOOSE j \in 1..n :
                        /\ enabled[j] = s
                        /\ \A k \in 1..n : enabled[k] = s => k <= j
            IN  IF search_results[i].exc
                THEN [status |-> "error", papers |-> <<>>]
                ELSE [status |-> "success", papers |-> search_results[i].papers]]

AggInit ==
    /\ config \in [SourceNames -> BOOLEAN]
    /\ enabled_sources = _initialize_sources(config)
    /\ aggPc = "idle"
    /\ tasks = <<>>
    /\ results = <<>>
    /\ silent = {}
    /\ writes = <<>>

\* search_all_sources up to the await: builds the task list
search_all_sources ==
    /\ aggPc = "idle"
    /\ \A i \in 1..Len(enabled_sources) : enabled_sources[i] \in DefinedAdapters
    /\ tasks' = CreateTasks(enabled_sources)
    /\ aggPc' = "gather"
    /\ UNCHANGED <<config, enabled_sources, results, silent, writes>>

\* line 35: self._search_ieee does not exist, the attribute lookup raises
search_all_sources_raises ==
    /\ aggPc = "idle"
    /\ \E i \in 1..Len(enabled_sources) : enabled_sources[i] \notin DefinedAdapters
    /\ aggPc' = "raised"
    /\ UNCHANGED <<config, enabled_sources, tasks, results, silent, writes>>

\* one adapter coroutine runs to its end on the response it gets
AdapterCompletes ==
    /\ aggPc = "gather"
    /\ \E i \in 1..Len(tasks), resp \in AggResponses :
        /\ tasks[i].state = "pending"
        /\ LET out == AdapterOutcome(tasks[i].adapter, resp)
           IN  tasks' = [tasks EXCEPT ![i] = [adapter |-> tasks[i].adapter,
                                              state |-> "done",
                                              exc |-> out.exc,
                                              papers |-> out.papers]]
        /\ silent' = IF resp.kind = "timeout"
                     THEN silent \cup {tasks[i].adapter}
                     ELSE silent
    /\ UNCHANGED <<config, enabled_sources, aggPc, results, writes>>

\* Mutant of WrittenKeys: the entry of every pair is assigned a second time.
WrittenKeysTwice(enabled, search_results) ==
    LET n == Min(Len(enabled), Len(search_results))
    IN  [i \in 1..(2 * n) |-> enabled[((i - 1) % n) + 1]]

\* lines 39-44: one assignment results[source] = ... per pair of the zip
WrittenKeys(enabled, search_results) ==
    LET n == Min(Len(enabled), Len(search_results))
    IN  [i \in 1..n |-> enabled[i]]

\* asyncio.gather(return_exceptions=True) resumes the caller once every task is
\* done; the loop of lines 39-44 fills results and the call returns
GatherReturns ==
    /\ aggPc = "gather"
    /\ \A i \in 1..Len(tasks) : tasks[i].state = "done"
    /\ results' = ZipResults(enabled_sources, tasks)
    /\ writes' = WrittenKeys(enabled_sources, tasks)
    /\ aggPc' = "returned"
    /\ UNCHANGED <<config, enabled_sources, tasks, silent>>

-----------------------------------------------------------------------------
(* ResearchGapAgent                                                        *)

\* research_gaps.split()[:10]
MaxQueryTokens == 10
\* response lines kept: [...][:3]
MaxClaudeQueries == 3
\* search_queries[:2]
MaxDispatched == 2
\* paper['title'].lower()[:50]
TitleKeyLen == 50
\* title[:30]
TitlePrefixLen == 30

Letters == <<"a", "b", "c", "d", "e", "f", "g", "h", "i", "j", "k", "l", "m">>
Digits == <<"1", "2", "3", "4", "5", "6", "7">>

\* A text of n one-letter words separated by single spaces.
Words(n) == Join([i \in 1..n |-> <<Letters[i]>>], " ")

\* Gap descriptions: empty, blank, one word, more words than a query keeps,
\* and one with irregular spacing.
GapTexts ==
    {Words(0), <<" ">>, Words(1), Words(MaxQueryTokens + 1), <<" ", "a", " ", " ", "b">>}

ConceptLists == {<<>>, << <<"x">> >>, << <<"x">>, <<"y">> >>}

\* An answer of n lines, line i holding the query i padded with a blank, and
\* line b (if any) blank.
ClaudeText(n, b) ==
    Join([i \in 1..n |-> IF i = b THEN <<" ">> ELSE <<" ", Digits[i]>>], "\n")

ClaudeTexts == {ClaudeText(n, b) : n \in 0..MaxClaudeLines, b \in 0..MaxClaudeLines}

\* What messages.create can do: raise, or answer with a text.
ClaudeOutcomes ==
    {[raises |-> TRUE, text |-> <<>>]} \cup {[raises |-> FALSE, text |-> t] : t \in ClaudeTexts}

NoClaude == [raises |-> TRUE, text |-> <<>>]

\* Mutant of ClaudeQueries: every non-blank line is kept, the [:3] is dropped.
ClaudeQueriesUntruncated(text) ==
    LET claude_queries == SplitOn(Strip(text), "\n")
        stripped == [i \in 1..Len(claude_queries) |-> Strip(claude_queries[i])]
    IN  SelectSeq(stripped, LAMBDA q : q # <<>>)

\* lines 90-91: the stripped non-blank lines of the answer, at most three
ClaudeQueries(text) ==
    LET claude_queries == SplitOn(Strip(text), "\n")
        stripped == [i \in 1..Len(claude_queries) |-> Strip(claude_queries[i])]
    IN  Take(SelectSeq(stripped, LAMBDA q : q # <<>>), MaxClaudeQueries)

\* lines 63-72: the queries built from the arguments alone
BaselineQueries(gaps, concepts) ==
    LET gap_query == Join(Take(Split(gaps), MaxQueryTokens), " ")
    IN  IF concepts # <<>>
        THEN <<gap_query, concepts[1] \o <<" ">> \o Split(gaps)[1]>>
        ELSE <<gap_query>>

\* _generate_search_queries: research_gaps.split()[0] raises IndexError when
\* the text has no token and a concept is given; otherwise the baseline, replaced
\* by the answer's lines when a client is set and the call does not raise
_generate_search_queries(gaps, concepts, client, outcome) ==
    IF concepts # <<>> /\ Split(gaps) = <<>>
    THEN [raised |-> TRUE, queries |-> <<>>]
    ELSE IF client /\ ~outcome.raises
         THEN [raised |-> FALSE, queries |-> ClaudeQueries(outcome.text)]
         ELSE [raised |-> FALSE, queries |-> BaselineQueries(gaps, concepts)]

\* The <entry> elements an arXiv feed may hold: <title> with text, without
\* text, or missing; <id> present or missing.
ArxivEntries ==
    {[title |-> <<"A">>, id |-> 1],
     [title |-> <<" ", "B", "\n", "b">>, id |-> 2],
     [title |-> NoTitle, id |-> 3],
     [title |-> NoText, id |-> 4],
     [title |-> <<"A">>, id |-> NoId]}

ArxivResponses ==
    {[kind |-> "neterr", entries |-> <<>>], [kind |-> "status", entries |-> <<>>],
     [kind |-> "xmlerror", entries |-> <<>>]}
    \cup {[kind |-> "feed", entries |-> es] : es \in SeqsUpTo(ArxivEntries, MaxEntries)}

\* line 124: the entries that carry both a <title> and an <id>
UsableEntries(entries) == SelectSeq(entries, LAMBDA e : e.title # NoTitle /\ e.id # NoId)

\* lines 132-140: the record built for one entry
PaperOf(e) ==
    [title |-> ReplaceNewline(Strip(e.title)), url |-> e.id, source |-> "arXiv"]

\* search_arxiv: the parsed papers of a 200 feed; [] on a network error, another
\* status, unparseable XML, or a <title> without text (title_elem.text is None,
\* the AttributeError is caught)
search_arxiv(resp) ==
    IF resp.kind # "feed" THEN <<>>
    ELSE LET usable == UsableEntries(resp.entries)
         IN  IF \E i \in 1..Len(usable) : usable[i].title = NoText
             THEN <<>>
             ELSE [i \in 1..Len(usable) |-> PaperOf(usable[i])]

\* lines 144-147: search_arxiv ended in its handler or on a status other than
\* 200, and returned the [] of line 147
SearchFailed(resp) ==
    \/ resp.kind # "feed"
    \/ \E i \in 1..Len(resp.entries) :
          resp.entries[i].id # NoId /\ resp.entries[i].title = NoText

\* line 34, the call: the request for the query at position q goes out
Sent(q) == [event |-> "sent", query |-> q, failed |-> FALSE, papers |-> <<>>]

\* line 34, the await: search_arxiv has ended on the response to that request
\* and handed back its list
Received(q, resp) ==
    [event |-> "received", query |-> q, failed |-> SearchFailed(resp),
     papers |-> search_arxiv(resp)]

\* Mutant of Extend: the papers of a search are put in front of the list.
ExtendInFront(all, papers) == papers \o all

\* line 35: all_papers.extend(papers)
Extend(all, papers) == all \o papers

\* Mutant of TitleKey: the title is cut but not lower-cased.
TitleKeyCaseSensitive(title) == Take(title, TitleKeyLen)

\* line 175: title_key
TitleKey(title) == Take(Lower(title), TitleKeyLen)

RECURSIVE DedupLoop(_, _, _)
DedupLoop(papers, seen, unique) ==
    IF papers = <<>> THEN unique
    ELSE LET title_key == TitleKey(Head(papers).title)
         IN  IF title_key \notin seen
             THEN DedupLoop(Tail(papers), seen \cup {title_key}, Append(unique, Head(papers)))
             ELSE DedupLoop(Tail(papers), seen, unique)

Reverse(q) == [i \in 1..Len(q) |-> q[Len(q) + 1 - i]]

\* Mutant of _deduplicate_papers: a repeated key is forgotten again, so every
\* second occurrence of a key is let through.
RECURSIVE DedupToggleLoop(_, _, _)
DedupToggleLoop(papers, seen, unique) ==
    IF papers = <<>> THEN unique
    ELSE LET title_key == TitleKey(Head(papers).title)
         IN  IF title_key \notin seen
             THEN DedupToggleLoop(Tail(papers), seen \cup {title_key},
                                  Append(unique, Head(papers)))
             ELSE DedupToggleLoop(Tail(papers), seen \ {title_key}, unique)

DedupForgetsKey(papers) == DedupToggleLoop(papers, {}, <<>>)

\* Mutant of _deduplicate_papers: the last occurrence of a key is kept.
DedupKeepsLast(papers) == Reverse(DedupLoop(Reverse(papers), {}, <<>>))

\* _deduplicate_papers
_deduplicate_papers(papers) == DedupLoop(papers, {}, <<>>)

\* Mutant of _rank_papers_by_relevance: the list comes back reversed.
RankReversed(papers, gaps) == Reverse(papers)

\* _rank_papers_by_relevance: returns its argument as it is
_rank_papers_by_relevance(papers, gaps) == papers

\* lines 41-44
RankedPapers(client, unique, gaps) ==
    IF client /\ unique # <<>> THEN _rank_papers_by_relevance(unique, gaps) ELSE unique

\* Mutant of SummaryCount: the summary tells only whether anything was found.
SummaryCountCapped(ranked) == IF ranked = <<>> THEN 0 ELSE 1

\* line 46: len(ranked_papers), the number the summary string states
SummaryCount(ranked) == Len(ranked)

\* What the knowledge store can do with one databases.query call.
NotionOutcomes == {"error", "empty", "match"}

\* Mutant of paper_exists_in_notion: a failed lookup counts as a match.
PaperExistsFailClosed(client, outcome) ==
    IF ~client THEN FALSE ELSE outcome \in {"error", "match"}

\* paper_exists_in_notion: False without a client and on any exception,
\* otherwise whether the query returned a result
paper_exists_in_notion(client, outcome) ==
    IF ~client THEN FALSE
    ELSE IF outcome = "error" THEN FALSE
    ELSE outcome = "match"

\* Mutant of LookupCalls: the lookup creates a page.
LookupCallsCreate(client) == IF client THEN <<"pages.create">> ELSE <<>>

\* lines 151-155: what paper_exists_in_notion asks of the client, nothing
\* without a client and one databases.query otherwise
LookupCalls(client) == IF client THEN <<"databases.query">> ELSE <<>>

\* Mutant of TakesPaper: the negation of line 51 is lost.
TakesPaperInverted(exists) == exists

\* line 51: if not self.paper_exists_in_notion(...)
TakesPaper(exists) == ~exists

\* line 56: [new_paper] if new_paper else []
PapersField(paper) == IF paper # NoPaper THEN <<paper>> ELSE <<>>

AgentInputs ==
    /\ claude_client \in BOOLEAN
    /\ notion_client \in BOOLEAN
    /\ research_gaps \in GapTexts
    /\ key_concepts \in ConceptLists

AgentLocals ==
    /\ claude_reply = NoClaude
    /\ search_log = <<>>
    /\ search_queries = <<>>
    /\ dispatched = <<>>
    /\ all_papers = <<>>
    /\ unique_papers = <<>>
    /\ ranked_papers = <<>>
    /\ summary = NoSummary
    /\ lookups = <<>>
    /\ new_paper = NoPaper
    /\ result = NoResult
    /\ rededuped = <<>>

\* line 28: find_papers_for_gaps starts by generating the queries
GenerateQueries ==
    /\ pc = "generate"
    /\ \E outcome \in (IF claude_client THEN ClaudeOutcomes ELSE {NoClaude}) :
        LET g == _generate_search_queries(research_gaps, key_concepts, claude_client, outcome)
        IN  /\ search_queries' = g.queries
            /\ claude_reply' = IF claude_client /\ ~g.raised THEN outcome ELSE NoClaude
            /\ pc' = IF g.raised THEN "raised" ELSE "dispatch"
    /\ UNCHANGED <<claude_client, notion_client, research_gaps, key_concepts, dispatched,
                   search_log,
                   all_papers, unique_papers, ranked_papers, summary, lookups,
                   new_paper, result, rededuped>>

\* lines 33-35: the next of the first two queries is searched; the await of
\* line 34 ends before the loop goes on, and line 35 extends all_papers
DispatchSearch ==
    /\ pc = "dispatch"
    /\ Len(dispatched) < Len(Take(search_queries, MaxDispatched))
    /\ \E resp \in ArxivResponses :
        /\ all_papers' = Extend(all_papers, search_arxiv(resp))
        /\ search_log' = search_log \o <<Sent(Len(dispatched) + 1),
                                          Received(Len(dispatched) + 1, resp)>>
    /\ dispatched' = Append(dispatched, search_queries[Len(dispatched) + 1])
    /\ UNCHANGED <<claude_client, notion_client, research_gaps, key_concepts, claude_reply, pc,
                   search_queries, unique_papers, ranked_papers, summary, lookups,
                   new_paper, result, rededuped>>

\* line 38
Dedupe ==
    /\ pc = "dispatch"
    /\ Len(dispatched) = Len(Take(search_queries, MaxDispatched))
    /\ unique_papers' = _deduplicate_papers(all_papers)
    /\ pc' = "rank"
    /\ UNCHANGED <<claude_client, notion_client, research_gaps, key_concepts, claude_reply,
                   search_log,
                   search_queries, dispatched, all_papers, ranked_papers, summary,
                   lookups, new_paper, result, rededuped>>

\* lines 41-46
Rank ==
    /\ pc = "rank"
    /\ ranked_papers' = RankedPapers(claude_client, unique_papers, research_gaps)
    /\ summary' = SummaryCount(ranked_papers')
    /\ pc' = "filter"
    /\ UNCHANGED <<claude_client, notion_client, research_gaps, key_concepts, claude_reply,
                   search_log,
                   search_queries, dispatched, all_papers, unique_papers, lookups,
                   new_paper, result, rededuped>>

\* lines 50-53: one turn of the loop, the existence check of the next candidate
FilterKnown ==
    /\ pc = "filter"
    /\ Len(lookups) < Len(ranked_papers)
    /\ LET paper == ranked_papers[Len(lookups) + 1]
       IN  \E outcome \in (IF notion_client THEN NotionOutcomes ELSE {"noclient"}) :
            LET exists == paper_exists_in_notion(notion_client, outcome)
            IN  /\ lookups' = Append(lookups, [contains |-> Take(paper.title, TitlePrefixLen),
                                               outcome |-> outcome,
                                               exists |-> exists])
                /\ IF TakesPaper(exists)
                   THEN new_paper' = paper /\ pc' = "select"
                   ELSE UNCHANGED <<new_paper, pc>>
    /\ store_calls' = store_calls \o LookupCalls(notion_client)
    /\ UNCHANGED <<claude_client, notion_client, research_gaps, key_concepts, claude_reply,
                   search_log,
                   search_queries, dispatched, all_papers, unique_papers,
                   ranked_papers, summary, result, rededuped>>

\* the loop of line 50 runs out of candidates
FilterExhausted ==
    /\ pc = "filter"
    /\ Len(lookups) = Len(ranked_papers)
    /\ pc' = "select"
    /\ UNCHANGED <<claude_client, notion_client, research_gaps, key_concepts, claude_reply,
                   search_log,
                   search_queries, dispatched, all_papers, unique_papers,
                   ranked_papers, summary, lookups, new_paper, result, rededuped>>

\* lines 55-59
Emit ==
    /\ pc = "select"
    /\ result' = [papers |-> PapersField(new_paper),
                  summary |-> summary,
                  search_queries |-> search_queries]
    /\ pc' = "emit"
    /\ UNCHANGED <<claude_client, notion_client, research_gaps, key_concepts, claude_reply,
                   search_log,
                   search_queries, dispatched, all_papers, unique_papers,
                   ranked_papers, summary, lookups, new_paper, rededuped>>

-----------------------------------------------------------------------------
(* ResearchGapAgent.fetch_and_analyze_paper                                *)

\* line 223: the longest abstract that is its own summary
SummaryLen == 500

\* soup.find(...) found no such element
NoElement == <<"<no element>">>
NoAuthors == << <<"<no element>">> >>

\* Paper URLs, as the pieces the function looks at: an arXiv abstract page, an
\* arXiv page of another kind, and an abstract page of another site.
PaperUrls ==
    {<<"http://", "arxiv.org", "/", "abs", "/", "1">>,
     <<"http://", "arxiv.org", "/", "list", "/", "1">>,
     <<"http://", "doi.org", "/", "abs", "/", "1">>}

\* line 192: 'arxiv.org' in paper_url
IsArxiv(url) == \E i \in 1..Len(url) : url[i] = "arxiv.org"

\* line 193: paper_url.replace('abs', 'pdf') + '.pdf'
PdfUrl(url) == [i \in 1..Len(url) |-> IF url[i] = "abs" THEN "pdf" ELSE url[i]] \o <<".pdf">>

\* The text of <h1 class="title">: absent, labelled, or bare.
PageTitles == {NoElement, <<"Title:", "\n", "T", " ", "t", " ">>, <<"T">>}

\* The text of <blockquote class="abstract">: absent, blank, labelled, or
\* longer than a summary.
PageAbstracts ==
    {NoElement, <<" ">>, <<"Abstract:", " ", "A", "\n">>, [i \in 1..(SummaryLen + 1) |-> "a"]}

\* The texts of the <a> elements of <div class="authors">: no div, a div
\* without links, one link, two links.
PageAuthors == {NoAuthors, <<>>, << <<"P">> >>, << <<" ", "P">>, <<"Q", "\n">> >>}

NoPage == [kind |-> "none", title |-> NoElement, abstract |-> NoElement, authors |-> NoAuthors]

\* What the GET of line 197 and response.text() of line 199 can do: the
\* request raises, the status is not 200, the body cannot be decoded, or the
\* body is parsed (html.parser accepts any text; an element it does not find
\* is absent).
PageResponses ==
    {[kind |-> k, title |-> NoElement, abstract |-> NoElement, authors |-> NoAuthors] :
        k \in {"neterr", "status", "undecodable"}}
    \cup {[kind |-> "ok", title |-> t, abstract |-> a, authors |-> au] :
            t \in PageTitles, a \in PageAbstracts, au \in PageAuthors}

\* lines 203-207: elem.text.replace(label, '').strip() if elem else ''
ExtractText(elem, label) ==
    IF elem = NoElement THEN <<>> ELSE Strip(SelectSeq(elem, LAMBDA c : c # label))

\* lines 210-214
ExtractAuthors(elem) ==
    IF elem = NoAuthors THEN <<>> ELSE [i \in 1..Len(elem) |-> Strip(elem[i])]

\* line 223
SummaryOf(abstract) ==
    IF Len(abstract) > SummaryLen
    THEN Take(abstract, SummaryLen) \o <<".", ".", ".">>
    ELSE abstract

\* Mutant of PreAnalysis: the derived fields start out empty.
PreAnalysisEmptyDerived(url, resp) ==
    [title |-> ExtractText(resp.title, "Title:"),
     abstract |-> ExtractText(resp.abstract, "Abstract:"),
     authors |-> ExtractAuthors(resp.authors),
     url |-> url,
     pdf_url |-> PdfUrl(url),
     summary |-> SummaryOf(ExtractText(resp.abstract, "Abstract:")),
     key_concepts |-> <<>>,
     methodology |-> "",
     theme |-> ""]

\* lines 203-227: the analysis dict before the client is asked
PreAnalysis(url, resp) ==
    [title |-> ExtractText(resp.title, "Title:"),
     abstract |-> ExtractText(resp.abstract, "Abstract:"),
     authors |-> ExtractAuthors(resp.authors),
     url |-> url,
     pdf_url |-> PdfUrl(url),
     summary |-> SummaryOf(ExtractText(resp.abstract, "Abstract:")),
     key_concepts |-> <<>>,
     methodology |-> "Not analyzed",
     theme |-> "General"]

NoAnalysis == [title |-> NoElement]

\* The JSON objects an answer may hold: the three keys asked for, one of
\* them, and keys that were not asked for.
ClaudeDicts ==
    {[key_concepts |-> <<"k1", "k2", "k3">>, methodology |-> "survey", theme |-> "AI"],
     [theme |-> "QA"],
     [title |-> <<"Z">>, venue |-> "V"]}

NoDict == [none |-> TRUE]

\* What the analysis call can do: messages.create raises, the answer holds no
\* {...}, the {...} is not JSON, or it is a JSON object.
AnalysisReplies ==
    {[kind |-> k, dict |-> NoDict] : k \in {"raises", "nojson", "badjson"}}
    \cup {[kind |-> "json", dict |-> d] : d \in ClaudeDicts}

NoAnalysisCall == [kind |-> "none", dict |-> NoDict]

\* Mutant of AfterAnalysis: a failed analysis drops what the page gave.
AfterAnalysisDropsPage(a, reply) ==
    IF reply.kind = "json" THEN reply.dict @@ a ELSE NoAnalysis

\* lines 229-256: analysis.update(claude_analysis) when the answer holds a JSON
\* object; an exception of the call or of json.loads is caught and logged
AfterAnalysis(a, reply) ==
    IF reply.kind = "json" THEN reply.dict @@ a ELSE a

\* lines 258-261
Enriched(a) == [success |-> TRUE, data |-> a]

\* lines 264-271
ExternalPaper(url) ==
    [success |-> TRUE,
     data |-> [title |-> <<"External Paper">>,
               url |-> url,
               summary |-> <<"External paper - manual review needed">>]]

\* lines 273-275
FetchFailed(e) == [success |-> FALSE, error |-> e]

NoEnrichResult == [success |-> FALSE, error |-> "<none>"]

StoreIdle == store_calls = <<>>

EnrichIdle ==
    /\ enrichPc = "idle"
    /\ paper_url = <<>>
    /\ page = NoPage
    /\ analysis = NoAnalysis
    /\ analysis_reply = NoAnalysisCall
    /\ enrich_result = NoEnrichResult

\* lines 192-227 for an arXiv URL: the page is requested; an exception goes to
\* the handler of line 273, a status other than 200 falls through to line 264,
\* a page builds the analysis dict, which is returned at once unless a client
\* is set and the abstract is not empty
FetchPage ==
    /\ enrichPc = "fetch"
    /\ IsArxiv(paper_url)
    /\ \E resp \in PageResponses :
        /\ page' = resp
        /\ CASE resp.kind = "neterr" ->
                  /\ enrich_result' = FetchFailed("ClientError")
                  /\ enrichPc' = "done"
                  /\ UNCHANGED analysis
             [] resp.kind = "undecodable" ->
                  /\ enrich_result' = FetchFailed("UnicodeDecodeError")
                  /\ enrichPc' = "done"
                  /\ UNCHANGED analysis
             [] resp.kind = "status" ->
                  /\ enrich_result' = ExternalPaper(paper_url)
                  /\ enrichPc' = "done"
                  /\ UNCHANGED analysis
             [] resp.kind = "ok" ->
                  /\ analysis' = PreAnalysis(paper_url, resp)
                  /\ IF claude_client /\ analysis'.abstract # <<>>
                     THEN enrichPc' = "analyze" /\ UNCHANGED enrich_result
                     ELSE enrichPc' = "done" /\ enrich_result' = Enriched(analysis')
    /\ UNCHANGED <<paper_url, analysis_reply>>

\* lines 192, 264-271: any other URL is answered without a request
ReturnExternal ==
    /\ enrichPc = "fetch"
    /\ ~IsArxiv(paper_url)
    /\ enrich_result' = ExternalPaper(paper_url)
    /\ enrichPc' = "done"
    /\ UNCHANGED <<paper_url, page, analysis, analysis_reply>>

\* lines 229-261
AnalyzePaper ==
    /\ enrichPc = "analyze"
    /\ \E reply \in AnalysisReplies :
        /\ analysis_reply' = reply
        /\ analysis' = AfterAnalysis(analysis, reply)
        /\ enrich_result' = Enriched(analysis')
    /\ enrichPc' = "done"
    /\ UNCHANGED <<paper_url, page>>

-----------------------------------------------------------------------------
(* main.analyze_all_gaps and ResearchGapAgent.add_paper_to_notion          *)

\* Most pages one database query returns.
MaxPages == 4
\* results[:3]
LoopLimit == 3
\* title[:50]
FindingTitleLen == 50
\* best_paper['title'][:80]
AddedTitleLen == 80

\* The value None of new_paper_url.
NoUrl == "<None>"

\* What pages.create can do: raise, answer without a 'url', answer with an
\* empty 'url', answer with the URL of the new page.
CreateOutcomes == {"raises", "nourl", "emptyurl", "url"}

\* Mutant of add_paper_to_notion: a failed append is answered with a URL.
AddPaperHidesFailure(client, outcome) ==
    IF ~client THEN NoUrl ELSE "https://notion.so/new"

\* add_paper_to_notion: None without a client and on any exception, otherwise
\* response.get('url')
add_paper_to_notion(client, outcome) ==
    IF ~client THEN NoUrl
    ELSE IF outcome = "raises" THEN NoUrl
    ELSE IF outcome = "nourl" THEN NoUrl
    ELSE IF outcome = "emptyurl" THEN ""
    ELSE "https://notion.so/new"

\* main.py line 625: if new_paper_url
Truthy(url) == url # NoUrl /\ url # ""

\* The pages of the database: with a gap text and a short or a long title,
\* with an empty gap text, or without the properties lines 568-574 index.
NotionPages ==
    {[kind |-> "gaps", title |-> <<"P">>],
     [kind |-> "gaps", title |-> [i \in 1..(FindingTitleLen + 1) |-> "p"]],
     [kind |-> "nogaps", title |-> <<"Q">>],
     [kind |-> "broken", title |-> <<>>]}

\* The paper a discovery selects.
BestPaper == [title |-> <<"A">>, url |-> 1, source |-> "arXiv"]

\* What find_papers_for_gaps can do for one page: raise, or return no paper
\* or one paper after so many existence queries.
FindOutcomes ==
    {[kind |-> "raises", lookups |-> 0],
     [kind |-> "none", lookups |-> 0],
     [kind |-> "none", lookups |-> 1],
     [kind |-> "paper", lookups |-> 1]}

\* main.py lines 629, 646, 653, 660, 669
FindingTitle(title, added) ==
    IF added /\ Len(title) > FindingTitleLen
    THEN Take(title, FindingTitleLen) \o <<".", ".", ".">>
    ELSE IF added THEN title ELSE Take(title, FindingTitleLen)

\* Mutant of PageFindings: a page that ends in the handler of line 666 is
\* not reported.
PageFindingsDropError(p, find, fetched, new_paper_url) ==
    IF find.kind = "raises" THEN <<>>
    ELSE IF find.kind = "none"
    THEN <<[title |-> FindingTitle(p.title, FALSE), papers_found |-> 0,
            paper_added |-> NoText, summary |-> "No relevant papers found"]>>
    ELSE IF ~fetched
    THEN <<[title |-> FindingTitle(p.title, FALSE), papers_found |-> 1,
            paper_added |-> NoText, summary |-> "Could not fetch paper content"]>>
    ELSE IF ~Truthy(new_paper_url)
    THEN <<[title |-> FindingTitle(p.title, FALSE), papers_found |-> 1,
            paper_added |-> NoText,
            summary |-> "Found papers but failed to add to Notion"]>>
    ELSE <<[title |-> FindingTitle(p.title, TRUE), papers_found |-> 1,
            paper_added |-> Take(BestPaper.title, AddedTitleLen),
            notion_url |-> new_paper_url, summary |-> "Added"]>>

\* main.py lines 608-672: the findings one analyzed page appends
PageFindings(p, find, fetched, new_paper_url) ==
    IF find.kind = "raises"
    THEN <<[title |-> FindingTitle(p.title, FALSE), papers_found |-> 0,
            paper_added |-> NoText, summary |-> "Error"]>>
    ELSE IF find.kind = "none"
    THEN <<[title |-> FindingTitle(p.title, FALSE), papers_found |-> 0,
            paper_added |-> NoText, summary |-> "No relevant papers found"]>>
    ELSE IF ~fetched
    THEN <<[title |-> FindingTitle(p.title, FALSE), papers_found |-> 1,
            paper_added |-> NoText, summary |-> "Could not fetch paper content"]>>
    ELSE IF ~Truthy(new_paper_url)
    THEN <<[title |-> FindingTitle(p.title, FALSE), papers_found |-> 1,
            paper_added |-> NoText,
            summary |-> "Found papers but failed to add to Notion"]>>
    ELSE <<[title |-> FindingTitle(p.title, TRUE), papers_found |-> 1,
            paper_added |-> Take(BestPaper.title, AddedTitleLen),
            notion_url |-> new_paper_url, summary |-> "Added"]>>

\* main.py lines 615-622: add_paper_to_notion is reached
AddCalled(find, fetched) == find.kind = "paper" /\ fetched

\* what the three calls of one page did
TraceOf(find, fetched, create) ==
    [find |-> find.kind,
     fetched |-> find.kind = "paper" /\ fetched,
     create |-> IF AddCalled(find, fetched) THEN create ELSE "not called"]

BatchIdle ==
    /\ batchPc = "idle"
    /\ discord_client = FALSE
    /\ notion_results = <<>>
    /\ page_idx = 1
    /\ papers_analyzed = 0
    /\ papers_added = 0
    /\ findings = <<>>
    /\ notified = <<>>
    /\ page_trace = <<>>

\* main.py lines 545-546: without a client the request is refused
RefuseUnconfigured ==
    /\ batchPc = "start"
    /\ ~notion_client
    /\ batchPc' = "error400"
    /\ UNCHANGED <<discord_client, notion_results, page_idx, papers_analyzed, papers_added,
                   findings, notified, page_trace, store_calls>>

\* main.py lines 550-565: the database is queried; an exception of the query
\* ends the request in the handler of line 681
QueryDatabase ==
    /\ batchPc = "start"
    /\ notion_client
    /\ store_calls' = Append(store_calls, "databases.query")
    /\ \/ /\ batchPc' = "error500"
          /\ UNCHANGED notion_results
       \/ /\ \E rs \in SeqsUpTo(NotionPages, MaxPages) : notion_results' = rs
          /\ batchPc' = "loop"
    /\ UNCHANGED <<discord_client, page_idx, papers_analyzed, papers_added, findings,
                   notified, page_trace>>

\* main.py lines 567-672: one turn of the loop over results[:3]. A page whose
\* properties cannot be indexed raises into the handler of line 681; a page
\* without a gap text is skipped; any other page is analyzed.
AnalyzePage ==
    /\ batchPc = "loop"
    /\ page_idx <= Len(Take(notion_results, LoopLimit))
    /\ LET p == notion_results[page_idx]
       IN  CASE p.kind = "broken" ->
                  /\ batchPc' = "error500"
                  /\ UNCHANGED <<page_idx, papers_analyzed, papers_added, findings,
                                 notified, page_trace, store_calls>>
             [] p.kind = "nogaps" ->
                  /\ page_idx' = page_idx + 1
                  /\ UNCHANGED <<batchPc, papers_analyzed, papers_added, findings,
                                 notified, page_trace, store_calls>>
             [] p.kind = "gaps" ->
                  \E find \in FindOutcomes, fetched \in BOOLEAN, create \in CreateOutcomes :
                      LET called == AddCalled(find, fetched)
                          new_paper_url == IF called
                                           THEN add_paper_to_notion(notion_client, create)
                                           ELSE NoUrl
                          added == called /\ Truthy(new_paper_url)
                      IN  /\ papers_analyzed' = papers_analyzed + 1
                          /\ papers_added' = papers_added + (IF added THEN 1 ELSE 0)
                          /\ findings' = findings \o PageFindings(p, find, fetched, new_paper_url)
                          /\ notified' = IF added /\ discord_client
                                         THEN Append(notified, BestPaper)
                                         ELSE notified
                          /\ page_trace' = Append(page_trace, TraceOf(find, fetched, create))
                          /\ store_calls' = store_calls
                                \o [i \in 1..find.lookups |-> "databases.query"]
                                \o (IF called THEN <<"pages.create">> ELSE <<>>)
                          /\ page_idx' = page_idx + 1
                          /\ UNCHANGED batchPc
    /\ UNCHANGED <<discord_client, notion_results>>

\* main.py lines 674-679: the loop is over and the counts are returned
ReturnFindings ==
    /\ batchPc = "loop"
    /\ page_idx > Len(Take(notion_results, LoopLimit))
    /\ batchPc' = "done"
    /\ UNCHANGED <<discord_client, notion_results, page_idx, papers_analyzed, papers_added,
                   findings, notified, page_trace, store_calls>>

AggIdle ==
    /\ config = [s \in SourceNames |-> FALSE]
    /\ enabled_sources = <<>>
    /\ aggPc = "idle"
    /\ tasks = <<>>
    /\ results = <<>>
    /\ silent = {}
    /\ writes = <<>>

Init == AggIdle /\ AgentInputs /\ AgentLocals /\ pc = "generate" /\ EnrichIdle /\ StoreIdle /\ BatchIdle

Next ==
    \/ GenerateQueries /\ UNCHANGED <<aggVars, enrichVars, storeVars, batchVars>>
    \/ DispatchSearch /\ UNCHANGED <<aggVars, enrichVars, storeVars, batchVars>>
    \/ Dedupe /\ UNCHANGED <<aggVars, enrichVars, storeVars, batchVars>>
    \/ Rank /\ UNCHANGED <<aggVars, enrichVars, storeVars, batchVars>>
    \/ FilterKnown /\ UNCHANGED <<aggVars, enrichVars, batchVars>>
    \/ FilterExhausted /\ UNCHANGED <<aggVars, enrichVars, storeVars, batchVars>>
    \/ Emit /\ UNCHANGED <<aggVars, enrichVars, storeVars, batchVars>>

Spec == Init /\ [][Next]_vars

-----------------------------------------------------------------------------
(* _deduplicate_papers and _rank_papers_by_relevance on their own          *)

\* Titles around the 50-character cut: 49 to 51 characters with a common
\* prefix, ending in letters of either case or in a blank; and short titles
\* that differ in case or in the blanks between their words.
TitleMinLen == TitleKeyLen - 1
TitleMaxLen == TitleKeyLen + 1
TitleTails == SeqsUpTo({"a", "A"}, TitleMaxLen - TitleMinLen) \cup {<<" ">>}
LongTitles == {Repeat("x", TitleMinLen) \o tail : tail \in TitleTails}
ShortTitles == {<<"a", " ", "b">>, <<"A", " ", "b">>, <<"a", " ", " ", "b">>}
DedupRecords == {[title |-> t, url |-> 1, source |-> "arXiv"] : t \in LongTitles \cup ShortTitles}

\* Records with and without a relevance score.
RankRecords ==
    {[title |-> t, url |-> 1, source |-> "arXiv"] : t \in {<<"A">>, <<"B">>, <<"C">>}}
    \cup {[title |-> t, url |-> 1, source |-> "semantic_scholar", relevance_score |-> n] :
            t \in {<<"A">>, <<"B">>, <<"C">>}, n \in {3, 12}}

\* paper.get('relevance_score', 0)
Score(paper) == IF "relevance_score" \in DOMAIN paper THEN paper.relevance_score ELSE 0

PureIdle ==
    /\ AggIdle
    /\ notion_client = FALSE
    /\ key_concepts = <<>>
    /\ claude_reply = NoClaude
    /\ search_queries = <<>>
    /\ dispatched = <<>>
    /\ search_log = <<>>
    /\ unique_papers = <<>>
    /\ ranked_papers = <<>>
    /\ summary = NoSummary
    /\ lookups = <<>>
    /\ new_paper = NoPaper
    /\ result = NoResult
    /\ rededuped = <<>>
    /\ pc = "input"
    /\ EnrichIdle
    /\ StoreIdle
    /\ BatchIdle

ApplyDedupe ==
    /\ pc = "input"
    /\ unique_papers' = _deduplicate_papers(all_papers)
    /\ pc' = "deduped"
    /\ UNCHANGED <<claude_client, notion_client, research_gaps, key_concepts, claude_reply,
                   search_log,
                   search_queries, dispatched, all_papers, ranked_papers, summary,
                   lookups, new_paper, result, rededuped>>

ApplyDedupeAgain ==
    /\ pc = "deduped"
    /\ rededuped' = _deduplicate_papers(unique_papers)
    /\ pc' = "rededuped"
    /\ UNCHANGED <<claude_client, notion_client, research_gaps, key_concepts, claude_reply,
                   search_log,
                   search_queries, dispatched, all_papers, unique_papers,
                   ranked_papers, summary, lookups, new_paper, result>>

ApplyRank ==
    /\ pc = "deduped"
    /\ ranked_papers' = RankedPapers(claude_client, unique_papers, research_gaps)
    /\ pc' = "ranked"
    /\ UNCHANGED <<claude_client, notion_client, research_gaps, key_concepts, claude_reply,
                   search_log,
                   search_queries, dispatched, all_papers, unique_papers, summary,
                   lookups, new_paper, result, rededuped>>

InitDedup ==
    /\ PureIdle
    /\ claude_client = FALSE
    /\ research_gaps = <<>>
    /\ all_papers \in SeqsUpTo(DedupRecords, MaxPapers)

NextDedup ==
    \/ ApplyDedupe /\ UNCHANGED <<aggVars, enrichVars, storeVars, batchVars>>
    \/ ApplyDedupeAgain /\ UNCHANGED <<aggVars, enrichVars, storeVars, batchVars>>

SpecDedup == InitDedup /\ [][NextDedup]_vars

InitRank ==
    /\ PureIdle
    /\ claude_client \in BOOLEAN
    /\ research_gaps = Words(1)
    /\ all_papers \in SeqsUpTo(RankRecords, MaxPapers)

NextRank ==
    \/ ApplyDedupe /\ UNCHANGED <<aggVars, enrichVars, storeVars, batchVars>>
    \/ ApplyRank /\ UNCHANGED <<aggVars, enrichVars, storeVars, batchVars>>

SpecRank == InitRank /\ [][NextRank]_vars

AgentIdle ==
    /\ claude_client = FALSE
    /\ notion_client = FALSE
    /\ research_gaps = <<>>
    /\ key_concepts = <<>>
    /\ pc = "idle"
    /\ AgentLocals

InitAgg == AggInit /\ AgentIdle /\ EnrichIdle /\ StoreIdle /\ BatchIdle

NextAgg ==
    \/ search_all_sources /\ UNCHANGED <<agentVars, enrichVars, storeVars, batchVars>>
    \/ search_all_sources_raises /\ UNCHANGED <<agentVars, enrichVars, storeVars, batchVars>>
    \/ AdapterCompletes /\ UNCHANGED <<agentVars, enrichVars, storeVars, batchVars>>
    \/ GatherReturns /\ UNCHANGED <<agentVars, enrichVars, storeVars, batchVars>>

SpecAgg == InitAgg /\ [][NextAgg]_vars

\* The event loop runs every coroutine that can run, and a request that is
\* never answered is ended by the session's timeout: no step of a call is
\* postponed for ever.
SpecAggFair == SpecAgg /\ WF_vars(NextAgg)

\* every call that got as far as asyncio.gather returns
GatherEnds == (aggPc = "gather") ~> (aggPc = "returned")

InitEnrich ==
    /\ AggIdle
    /\ claude_client \in BOOLEAN
    /\ notion_client = FALSE
    /\ research_gaps = <<>>
    /\ key_concepts = <<>>
    /\ pc = "idle"
    /\ AgentLocals
    /\ enrichPc = "fetch"
    /\ paper_url \in PaperUrls
    /\ page = NoPage
    /\ analysis = NoAnalysis
    /\ analysis_reply = NoAnalysisCall
    /\ enrich_result = NoEnrichResult
    /\ StoreIdle
    /\ BatchIdle

NextEnrich ==
    \/ FetchPage /\ UNCHANGED <<aggVars, agentVars, storeVars, batchVars>>
    \/ ReturnExternal /\ UNCHANGED <<aggVars, agentVars, storeVars, batchVars>>
    \/ AnalyzePaper /\ UNCHANGED <<aggVars, agentVars, storeVars, batchVars>>

SpecEnrich == InitEnrich /\ [][NextEnrich]_vars

InitBatch ==
    /\ AggIdle
    /\ claude_client = FALSE
    /\ research_gaps = <<>>
    /\ key_concepts = <<>>
    /\ pc = "idle"
    /\ AgentLocals
    /\ notion_client \in BOOLEAN
    /\ EnrichIdle
    /\ StoreIdle
    /\ batchPc = "start"
    /\ discord_client \in BOOLEAN
    /\ notion_results = <<>>
    /\ page_idx = 1
    /\ papers_analyzed = 0
    /\ papers_added = 0
    /\ findings = <<>>
    /\ notified = <<>>
    /\ page_trace = <<>>

NextBatch ==
    \/ RefuseUnconfigured /\ UNCHANGED <<aggVars, agentVars, enrichVars>>
    \/ QueryDatabase /\ UNCHANGED <<aggVars, agentVars, enrichVars>>
    \/ AnalyzePage /\ UNCHANGED <<aggVars, agentVars, enrichVars>>
    \/ ReturnFindings /\ UNCHANGED <<aggVars, agentVars, enrichVars>>

SpecBatch == InitBatch /\ [][NextBatch]_vars

\* The entry the loop of lines 39-44 is to write for a finished coroutine.
EntryOf(task) ==
    IF task.exc THEN [status |-> "error", papers |-> <<>>]
    ELSE [status |-> "success", papers |-> task.papers]

EnabledSet == {enabled_sources[i] : i \in 1..Len(enabled_sources)}

\* C1: fan-out fault isolation. Whatever sources are enabled and whichever of
\* them fail, search_all_sources does not raise, and the mapping it returns
\* marks each failing source "error" with no papers and every other enabled
\* source "success" with its own papers.
C1_FanOutFaultIsolation ==
    /\ aggPc # "raised"
    /\ aggPc = "returned" =>
          \A s \in EnabledSet :
              /\ s \in DOMAIN results
              /\ \E i \in 1..Len(tasks) :
                    tasks[i].adapter = s /\ results[s] = EntryOf(tasks[i])

\* C2: the returned mapping has exactly one entry per enabled source, and
\* the entry under a source's key is the outcome of that source's own adapter.
C2_OneEntryPerEnabledSource ==
    aggPc = "returned" =>
        /\ DOMAIN results = EnabledSet
        /\ Cardinality(DOMAIN results) = Len(enabled_sources)
        /\ Len(tasks) = Len(enabled_sources)
        /\ \A i \in 1..Len(tasks) : results[tasks[i].adapter] = EntryOf(tasks[i])

\* Two sources enabled, one failed and the other returned papers.
C2_Witness ==
    /\ aggPc = "returned"
    /\ Len(enabled_sources) = 2
    /\ results["arxiv"].status = "error"
    /\ results["semantic_scholar"].status = "success"
    /\ results["semantic_scholar"].papers # <<>>

-----------------------------------------------------------------------------
(* Claims about find_papers_for_gaps                                       *)

\* C3: find_papers_for_gaps never raises and always returns a well-formed
\* result (papers, summary, search_queries); when no search produced a
\* candidate, papers is empty and the summary reports zero papers.
C3_AlwaysWellFormedResult ==
    /\ pc # "raised"
    /\ pc = "emit" =>
          /\ DOMAIN result = {"papers", "summary", "search_queries"}
          /\ result.summary \in Nat
          /\ all_papers = <<>> => result.papers = <<>> /\ result.summary = 0

\* C4: papers holds at most one element; when non-empty it is the first
\* candidate in rank order whose existence check returned false, all
\* candidates before it having been reported as existing; it is empty exactly
\* when there is no candidate or every candidate was reported as existing.
C4_FirstUnknownCandidate ==
    pc = "emit" =>
        /\ Len(result.papers) <= 1
        /\ Len(lookups) <= Len(ranked_papers)
        /\ \A j \in 1..Len(lookups) :
              lookups[j].contains = Take(ranked_papers[j].title, TitlePrefixLen)
        /\ result.papers # <<>> =>
              /\ lookups # <<>>
              /\ result.papers = <<ranked_papers[Len(lookups)]>>
              /\ ~lookups[Len(lookups)].exists
              /\ \A j \in 1..(Len(lookups) - 1) : lookups[j].exists
        /\ result.papers = <<>> <=>
              \/ ranked_papers = <<>>
              \/ /\ Len(lookups) = Len(ranked_papers)
                 /\ \A j \in 1..Len(lookups) : lookups[j].exists

\* The top candidate is reported as existing and the second one is selected.
C4_Witness ==
    /\ pc = "emit"
    /\ Len(ranked_papers) >= 2
    /\ lookups[1].outcome = "match"
    /\ result.papers = <<ranked_papers[2]>>

\* C5: a lookup that errors (or that cannot be made, no client being set)
\* counts as "does not exist": the candidate it was made for is the selection,
\* so with a non-empty ranked list and every lookup failing the result holds
\* the top-ranked candidate, and the call does not raise.
C5_FilterFailOpen ==
    /\ \A j \in 1..Len(lookups) :
          lookups[j].outcome \in {"error", "noclient"} =>
              /\ ~lookups[j].exists
              /\ j = Len(lookups)
              /\ new_paper = ranked_papers[j]
              /\ pc \in {"select", "emit"}
    /\ ( /\ pc = "emit"
         /\ ranked_papers # <<>>
         /\ \A j \in 1..Len(lookups) : lookups[j].outcome \in {"error", "noclient"} )
       => result.papers = <<ranked_papers[1]>>

\* The store fails on the first lookup of a list of two candidates and the
\* top candidate is returned.
C5_Witness ==
    /\ pc = "emit"
    /\ notion_client
    /\ Len(ranked_papers) >= 2
    /\ lookups = <<[contains |-> Take(ranked_papers[1].title, TitlePrefixLen),
                    outcome |-> "error", exists |-> FALSE]>>
    /\ result.papers = <<ranked_papers[1]>>

-----------------------------------------------------------------------------
(* Claims about _deduplicate_papers                                        *)

\* The identity key of the claims: the lower-cased title cut to 50 characters.
IdentityKey(paper) == Take(Lower(paper.title), TitleKeyLen)

\* The records of L whose key no earlier record of L has, in the order of L.
RECURSIVE FirstOccurrences(_, _)
FirstOccurrences(L, i) ==
    IF i > Len(L) THEN <<>>
    ELSE (IF \A j \in 1..(i - 1) : IdentityKey(L[j]) # IdentityKey(L[i])
          THEN <<L[i]>> ELSE <<>>) \o FirstOccurrences(L, i + 1)

\* C6: dedup idempotence, _deduplicate_papers applied to its own output
\* returns that output.
C6_DedupIdempotent ==
    pc = "rededuped" => rededuped = unique_papers

\* A list of three records from which a duplicate was removed.
C6_Witness ==
    /\ pc = "rededuped"
    /\ Len(all_papers) = 3
    /\ Len(unique_papers) = 2
    /\ rededuped = unique_papers

\* C7: the output is the subsequence of the input made of the first
\* occurrence of each identity key: no two output records share a key, every
\* key of the input appears in the output, and input order is preserved.
C7_FirstOccurrencePerKey ==
    pc \in {"deduped", "rededuped", "ranked"} =>
        /\ unique_papers = FirstOccurrences(all_papers, 1)
        /\ \A a, b \in 1..Len(unique_papers) :
              a # b => IdentityKey(unique_papers[a]) # IdentityKey(unique_papers[b])
        /\ \A i \in 1..Len(all_papers) : \E a \in 1..Len(unique_papers) :
              IdentityKey(unique_papers[a]) = IdentityKey(all_papers[i])

\* Two records with one key but different titles, the first one kept, and a
\* record with another key after them.
C7_Witness ==
    /\ pc = "deduped"
    /\ Len(all_papers) = 3
    /\ all_papers[1] # all_papers[2]
    /\ IdentityKey(all_papers[1]) = IdentityKey(all_papers[2])
    /\ Len(all_papers[1].title) > TitleKeyLen
    /\ Take(all_papers[1].title, TitleKeyLen) = Take(all_papers[2].title, TitleKeyLen)
    /\ unique_papers = <<all_papers[1], all_papers[3]>>

RemoveSpaces(s) == SelectSeq(s, LAMBDA c : ~IsSpace(c))

\* The first 50 characters of a title, up to letter case and whitespace.
CaseSpaceKey(paper) == RemoveSpaces(Lower(Take(paper.title, TitleKeyLen)))

\* The first 50 characters of a title, up to letter case.
CaseKey(paper) == Lower(Take(paper.title, TitleKeyLen))

\* C8 as stated: records whose titles differ only by case and whitespace
\* within the first 50 characters collapse to one, so no two records of the
\* output agree up to case and whitespace.
C8_CaseAndSpaceCollapse ==
    pc = "deduped" =>
        \A a, b \in 1..Len(unique_papers) :
            a # b => CaseSpaceKey(unique_papers[a]) # CaseSpaceKey(unique_papers[b])

\* C8 as amended: records whose titles differ only by letter case within
\* the first 50 characters collapse to one, the earliest of them; records
\* whose first 50 characters differ in anything else, whitespace included,
\* are all kept.
C8_CaseCollapse ==
    pc = "deduped" =>
        \A i \in 1..Len(all_papers) :
            LET same == {j \in 1..Len(all_papers) : CaseKey(all_papers[j]) = CaseKey(all_papers[i])}
                first == CHOOSE j \in same : \A k \in same : j <= k
                kept == {a \in 1..Len(unique_papers) :
                            CaseKey(unique_papers[a]) = CaseKey(all_papers[i])}
            IN  /\ Cardinality(kept) = 1
                /\ \A a \in kept : unique_papers[a] = all_papers[first]

\* "a b", "A b" and "a  b": the second collapses into the first, the third,
\* which differs in whitespace only, is kept.
C8_Witness ==
    /\ pc = "deduped"
    /\ Len(all_papers) = 3
    /\ all_papers[1].title # all_papers[2].title
    /\ CaseKey(all_papers[1]) = CaseKey(all_papers[2])
    /\ CaseSpaceKey(all_papers[3]) = CaseSpaceKey(all_papers[1])
    /\ unique_papers = <<all_papers[1], all_papers[3]>>

-----------------------------------------------------------------------------
(* Claims about the ranked list                                            *)

\* C9: the ranked list is in descending order of relevance score, a missing
\* score counting as 0.
C9_RankedDescending ==
    pc = "ranked" =>
        \A i, j \in 1..Len(ranked_papers) :
            i < j => Score(ranked_papers[i]) >= Score(ranked_papers[j])

\* C10: rank stability, candidates with equal relevance score (a missing
\* score being 0) stand in the ranked list in the order they have in the
\* deduplicated input.
C10_RankStable ==
    pc = "ranked" =>
        \A i, j \in 1..Len(unique_papers) :
            (i < j /\ Score(unique_papers[i]) = Score(unique_papers[j])) =>
                \E a, b \in 1..Len(ranked_papers) :
                    /\ a < b
                    /\ ranked_papers[a] = unique_papers[i]
                    /\ ranked_papers[b] = unique_papers[j]

\* Ranking with a client set, two candidates of equal score around one of a
\* higher score.
C10_Witness ==
    /\ pc = "ranked"
    /\ claude_client
    /\ Len(unique_papers) = 3
    /\ Score(unique_papers[1]) = Score(unique_papers[3])
    /\ Score(unique_papers[2]) > Score(unique_papers[1])
    /\ ranked_papers[1] = unique_papers[1]
    /\ ranked_papers[3] = unique_papers[3]

------------------------------------------------------------------------------
(* Claims about _generate_search_queries and the queries of a selection    *)

\* the call of _generate_search_queries has returned a list
Generated == pc \notin {"generate", "raised"}

\* the loop of lines 33-35 has finished
SearchesDone == pc \in {"rank", "filter", "select", "emit"}

\* the lines of an answer that hold a query
UsableLines(text) == SelectSeq(SplitOn(text, "\n"), LAMBDA l : Strip(l) # <<>>)

\* C11: query bound. _generate_search_queries returns at most 3 queries,
\* whatever the gap text, the concepts and the generated text are, and
\* find_papers_for_gaps issues searches for at most 2 of them: the queries
\* issued are always a prefix of the generated list, and once the loop is
\* over they are its first two (or all of it when it is shorter).
C11_QueryBound ==
    /\ Len(search_queries) <= 3
    /\ Len(dispatched) <= 2
    /\ Len(dispatched) <= Len(search_queries)
    /\ \A i \in 1..Len(dispatched) : dispatched[i] = search_queries[i]
    /\ SearchesDone =>
          Len(dispatched) = (IF Len(search_queries) < 2 THEN Len(search_queries) ELSE 2)

\* an answer of four query lines was cut to three queries, two were issued
C11_Witness ==
    /\ pc = "emit"
    /\ ~claude_reply.raises
    /\ Len(UsableLines(claude_reply.text)) = 4
    /\ Len(search_queries) = 3
    /\ dispatched = <<search_queries[1], search_queries[2]>>

\* C12: the list _generate_search_queries returns is never empty, whatever
\* the text generation answers (empty and blank-only text included).
C12_NeverEmptyQueryList == Generated => search_queries # <<>>

\* C13: _generate_search_queries raises no error to its caller, for every gap
\* text (empty and whitespace-only included), every concept list, with or
\* without the client.
C13_GenerationNeverRaises == pc # "generate" => Generated

\* the text generation failed: no client, the call raised, or the answer
\* holds fewer than three query lines
ClaudeFailed ==
    \/ ~claude_client
    \/ claude_reply.raises
    \/ Len(UsableLines(claude_reply.text)) < 3

\* C14: when the text generation fails (unavailable, raises, or answers with
\* something that is not three query lines) the returned list is the baseline
\* list: the first ten tokens of the gap text and, when a concept exists, the
\* first concept joined with the first token of the gap text.
C14_FailureFallsBackToBaseline ==
    (Generated /\ ClaudeFailed) =>
        search_queries = BaselineQueries(research_gaps, key_concepts)

\* C15: the search_queries field of the result holds exactly the queries for
\* which a search was issued during the invocation.
C15_ReportsIssuedQueries ==
    pc = "emit" => result.search_queries = dispatched

------------------------------------------------------------------------------
(* Claims about fetch_and_analyze_paper                                    *)

\* an arXiv URL whose page was served with status 200 and decoded
PageFetched == enrichPc = "done" /\ IsArxiv(paper_url) /\ page.kind = "ok"

\* title, abstract and authors of the result are those of the page
PageFieldsKept ==
    /\ enrich_result.success
    /\ enrich_result.data.title = ExtractText(page.title, "Title:")
    /\ enrich_result.data.abstract = ExtractText(page.abstract, "Abstract:")
    /\ enrich_result.data.authors = ExtractAuthors(page.authors)

AnalysisFailed == analysis_reply.kind \in {"raises", "nojson", "badjson"}

\* C17: when the analysis call raises or its answer cannot be parsed, the
\* enrichment still returns a successful result with the title, abstract and
\* authors of the page and with the derived fields as they were before the
\* analysis.
C17_AnalysisFailureKeepsRecord ==
    (enrichPc = "done" /\ AnalysisFailed) =>
        /\ PageFieldsKept
        /\ enrich_result = Enriched(PreAnalysis(paper_url, page))

\* the answer was not JSON and the page's fields came back
C17_Witness ==
    /\ enrichPc = "done"
    /\ claude_client
    /\ analysis_reply.kind = "badjson"
    /\ enrich_result.success
    /\ enrich_result.data.title = <<"T">>
    /\ enrich_result.data.abstract = <<"A">>
    /\ enrich_result.data.methodology = "Not analyzed"

\* C18: when the page cannot be fetched (the request raises, the status is
\* not 200, the body cannot be decoded) the enrichment returns a failure
\* result, success false with an error text, and no successful record.
C18_FetchFailureIsFailureResult ==
    (enrichPc = "done" /\ page.kind \in {"neterr", "status", "undecodable"}) =>
        /\ ~enrich_result.success
        /\ "error" \in DOMAIN enrich_result

------------------------------------------------------------------------------
(* Claims about the end of a search_all_sources call                       *)

\* the sources whose coroutine ran to its end on an answer
Answered == {tasks[i].adapter : i \in {j \in 1..Len(tasks) : tasks[j].state = "done"}} \ silent

\* C19: a call in which a source never answers still returns: it does not end
\* without a mapping, and the mapping it returns records every silent source
\* as failed and keeps the outcome of every source that did answer.
C19_SilentSourceDoesNotSinkCall ==
    /\ aggPc \in {"idle", "gather", "returned"}
    /\ aggPc = "returned" =>
          /\ \A s \in silent : results[s] = [status |-> "error", papers |-> <<>>]
          /\ \A i \in 1..Len(tasks) :
                tasks[i].adapter \in Answered =>
                    results[tasks[i].adapter] = EntryOf(tasks[i])

\* C20: search_all_sources fails outright exactly when no source is enabled:
\* a call with no enabled source ends with an error, and a call with one or
\* more enabled sources does not raise.
C20_RaisesIffNoSourceEnabled ==
    aggPc \in {"returned", "raised"} =>
        (aggPc = "raised" <=> enabled_sources = <<>>)

------------------------------------------------------------------------------
(* Claims about the records, the stages and the summary                    *)

\* C22: every record a source adapter returns has a non-empty title, carries
\* the identifier of its source, and has a numeric relevance score.
C22_RecordsPopulated ==
    \A i \in 1..Len(tasks) :
        (tasks[i].state = "done" /\ ~tasks[i].exc) =>
            \A j \in 1..Len(tasks[i].papers) :
                /\ tasks[i].papers[j].title # <<>>
                /\ tasks[i].papers[j].source = tasks[i].adapter
                /\ tasks[i].papers[j].relevance_score \in Nat

\* C23: an invocation of find_papers_for_gaps goes through generate,
\* dispatch, dedupe, rank, filter, select, emit in this order: candidates are
\* deduplicated only after every dispatched search has completed, no lookup
\* happens before ranking, a result exists only at emit, and emit is the only
\* state in which an invocation ends.
C23_StagesInOrder ==
    /\ pc \in {"rank", "filter", "select", "emit"} =>
          Len(dispatched) = Len(Take(search_queries, 2))
    /\ unique_papers # <<>> => pc \in {"rank", "filter", "select", "emit"}
    /\ lookups # <<>> => pc \in {"filter", "select", "emit"}
    /\ new_paper # NoPaper => pc \in {"select", "emit"}
    /\ result # NoResult => pc = "emit"
    /\ ~(ENABLED Next) => pc = "emit"

\* C29: the number in the summary is the number of deduplicated, ranked
\* candidates, fixed before the existence checks: it is the same whatever the
\* lookups answer and whatever is selected.
C29_SummaryCountsCandidates ==
    /\ pc \in {"filter", "select", "emit"} =>
          /\ summary = Len(FirstOccurrences(all_papers, 1))
          /\ summary = Len(ranked_papers)
    /\ pc = "emit" =>
          /\ result.summary = summary
          /\ Len(result.papers) <= 1

\* two candidates were found, both are in the store, nothing is selected
C29_Witness ==
    /\ pc = "emit"
    /\ result.summary = 2
    /\ Len(lookups) = 2
    /\ \A j \in 1..Len(lookups) : lookups[j].exists
    /\ result.papers = <<>>

\* C28: whatever the analysis answers, title, abstract, authors, url and
\* pdf_url of the enriched record are the values taken from the page and the
\* argument; the answer only fills key_concepts, methodology and theme.
C28_AnalysisFillsDerivedOnly ==
    (PageFetched /\ analysis_reply.kind = "json") =>
        /\ PageFieldsKept
        /\ enrich_result.data.url = paper_url
        /\ enrich_result.data.pdf_url = PdfUrl(paper_url)
        /\ DOMAIN enrich_result.data = DOMAIN PreAnalysis(paper_url, page)

------------------------------------------------------------------------------
(* Claims about the dispatch stage                                         *)

\* the searches that have ended, in the order they ended
Ended == SelectSeq(search_log, LAMBDA e : e.event = "received")

\* C24: the searches of the dispatch stage run concurrently, so when two
\* queries are dispatched the request for the second is out before the
\* search for the first has ended.
C24_SearchesInFlightTogether ==
    \A i \in 1..Len(search_log) :
        (/\ search_log[i].event = "received"
         /\ search_log[i].query = 1
         /\ Len(search_queries) >= 2) =>
            \E j \in 1..(i - 1) :
                search_log[j].event = "sent" /\ search_log[j].query = 2

RECURSIVE Concatenation(_)
Concatenation(lists) ==
    IF lists = <<>> THEN <<>> ELSE Head(lists) \o Concatenation(Tail(lists))

\* C26: the candidate list is the concatenation of the lists the searches
\* returned, in the order the queries were dispatched and each list in its
\* own order; a failed search adds nothing and the lists of the other
\* searches are all there.
C26_CandidatesAreConcatenation ==
    /\ \A i \in 1..Len(Ended) : Ended[i].query = i
    /\ \A i \in 1..Len(Ended) : Ended[i].failed => Ended[i].papers = <<>>
    /\ all_papers = Concatenation([i \in 1..Len(Ended) |-> Ended[i].papers])
    /\ pc \in {"rank", "filter", "select", "emit"} => Len(Ended) = Len(dispatched)

\* the first search failed, the second returned two papers: both are the
\* candidates, in the order of the feed
C26_Witness ==
    /\ pc = "rank"
    /\ Len(Ended) = 2
    /\ Ended[1].failed
    /\ ~Ended[2].failed
    /\ Len(Ended[2].papers) = 2
    /\ Ended[2].papers[1].url # Ended[2].papers[2].url
    /\ all_papers = Ended[2].papers

------------------------------------------------------------------------------
(* Claims about the mapping search_all_sources fills                       *)

\* how often results[s] was assigned
WriteCount(s) == Cardinality({i \in 1..Len(writes) : writes[i] = s})

\* every coroutine handed to asyncio.gather has ended
AllJoined == \A i \in 1..Len(tasks) : tasks[i].state = "done"

\* C25: the mapping is written exactly once per enabled source, in whichever
\* order the source tasks end, and it is neither written nor returned before
\* all of them have ended.
C25_MappingWrittenOncePerSource ==
    /\ \A s \in SourceNames : WriteCount(s) <= 1
    /\ (writes # <<>> \/ DOMAIN results # {} \/ aggPc = "returned") =>
          aggPc = "returned" /\ AllJoined
    /\ aggPc = "returned" =>
          /\ \A s \in EnabledSet : WriteCount(s) = 1
          /\ \A i \in 1..Len(writes) : writes[i] \in EnabledSet
          /\ DOMAIN results = {writes[i] : i \in 1..Len(writes)}

\* both sources were joined, one of them after its request ran into the
\* timeout, and each key was written once
C25_Witness ==
    /\ aggPc = "returned"
    /\ writes = <<"semantic_scholar", "arxiv">>
    /\ silent = {"semantic_scholar"}
    /\ results["arxiv"].status = "success"

------------------------------------------------------------------------------
(* Claims about the knowledge store                                        *)

\* C27: discovery only reads the knowledge store. Every call
\* find_papers_for_gaps makes on the client is an existence query, one per
\* candidate looked up, so no call of it changes what the store holds.
C27_DiscoveryOnlyQueriesStore ==
    (pc \in {"generate", "dispatch", "rank", "filter", "select", "emit", "raised"}) =>
        /\ \A i \in 1..Len(store_calls) : store_calls[i] = "databases.query"
        /\ Len(store_calls) = (IF notion_client THEN Len(lookups) ELSE 0)

\* a discovery ended after two lookups, one answered with a match and one
\* that failed, and the store was only queried
C27_Witness ==
    /\ pc = "emit"
    /\ notion_client
    /\ Len(lookups) = 2
    /\ lookups[1].outcome = "match"
    /\ lookups[2].outcome = "error"
    /\ store_calls = <<"databases.query", "databases.query">>

------------------------------------------------------------------------------
(* Claims about analyze_all_gaps                                           *)

\* the analyzed pages whose append returned a URL
AddedPages == {k \in 1..Len(page_trace) : page_trace[k].create = "url"}

\* the analyzed pages whose append failed or returned no URL
FailedAppends ==
    {k \in 1..Len(page_trace) : page_trace[k].create \in {"raises", "nourl", "emptyurl"}}

\* the pages of results[:3] that carry a gap text
GapPages ==
    {i \in 1..Len(Take(notion_results, 3)) : notion_results[i].kind = "gaps"}

\* C21: a failed append is reported as data and the run goes on. The finding
\* of a page whose append failed says that nothing was added, the page is not
\* counted in papers_added, no notification is sent for it, the request does
\* not end in an error because of it, and the pages after it are analyzed.
C21_WriteFailureIsReported ==
    /\ Len(findings) = Len(page_trace)
    /\ \A k \in FailedAppends :
          /\ findings[k].paper_added = NoText
          /\ findings[k].papers_found = 1
          /\ findings[k].summary = "Found papers but failed to add to Notion"
    /\ papers_added = Cardinality(AddedPages)
    /\ Len(notified) = (IF discord_client THEN Cardinality(AddedPages) ELSE 0)
    /\ batchPc = "error500" =>
          \/ notion_results = <<>>
          \/ notion_results[page_idx].kind = "broken"
    /\ batchPc = "done" => papers_analyzed = Cardinality(GapPages)

\* the append of the first page raised, the second page was added and
\* notified, the third was analyzed as well
C21_Witness ==
    /\ batchPc = "done"
    /\ discord_client
    /\ papers_analyzed = 3
    /\ page_trace[1].create = "raises"
    /\ page_trace[2].create = "url"
    /\ findings[1].paper_added = NoText
    /\ findings[2].paper_added = BestPaper.title
    /\ papers_added = 1
    /\ notified = <<BestPaper>>

\* C30: papers_added <= papers_analyzed <= 3 at every step; a finished run
\* has one finding per analyzed page, whichever branch the page took, and a
\* page counts as added only when the store returned a URL for it.
C30_CountsAndFindingsAgree ==
    /\ papers_added <= papers_analyzed
    /\ papers_analyzed <= 3
    /\ batchPc = "done" => Len(findings) = papers_analyzed
    /\ papers_added = Cardinality(AddedPages)
    /\ \A k \in 1..Len(findings) :
          findings[k].paper_added # NoText <=> k \in AddedPages

\* four pages were returned, three were analyzed: one ended in an error, one
\* was added, one found no paper
C30_Witness ==
    /\ batchPc = "done"
    /\ Len(notion_results) = 4
    /\ papers_analyzed = 3
    /\ papers_added = 1
    /\ Len(findings) = 3
    /\ findings[1].summary = "Error"
    /\ findings[2].summary = "Added"
    /\ findings[3].summary = "No relevant papers found"

====
